---- MODULE Spec2Model ----
(***************************************************************************)
(* Model of the mempool selection simulator selectTxs                      *)
(* (src/pages/Mempool.tsx, kept as src/unnamed/part_006).                  *)
(*                                                                         *)
(* One call of selectTxs is run step by step: Start builds the locals      *)
(* (eligible, bySender, nextNonce, heads), one action is taken per        *)
(* iteration of the inner `for` over heads (Admit, Skip or Blocked),      *)
(* NextPass re-enters the outer `while`, and Finish leaves the loop and   *)
(* computes the aggregates.                                                *)
(*                                                                         *)
(* Sender keys are non-numeric strings, as in the page's data             *)
(* ("0x8a...9c"), so Object.keys / Object.entries enumerate them in       *)
(* insertion order.  Array.prototype.sort is stable.                       *)
(* The variable trace is a history of what the loop did; no step reads it.  *)
(*                                                                         *)
(* The hook useStableHeight (src/hooks/useNode.ts, kept as                  *)
(* src/unnamed/part_012) is modelled next to it: tip and status events set  *)
(* the values the hook reads, and HeightEffect is one run of its effect,    *)
(* which React schedules when a dependency differs from the last run's.     *)
(*                                                                         *)
(* The hook useBlocksAndMempool of the same file reads the height that      *)
(* useStableHeight returns; BlocksEffect is one run of its effect, and the  *)
(* record feed holds its blocks, its lastHeight ref and its capBlocks.      *)
(*                                                                         *)
(* The hook useCached (src/hooks/useCached.ts, kept as                      *)
(* src/unnamed/part_002) is the record cached: the hook's four states, the  *)
(* localStorage item under its key, the clock, and the loader promises in   *)
(* flight.  A call of refresh is two steps, Refresh up to the await and     *)
(* Resolve or Reject after it, so calls of refresh can overlap.             *)
(***************************************************************************)
EXTENDS Integers, Sequences, FiniteSets

\* ---- the explored inputs ----
\* The inputs are every txs array of the lengths in Lens over the field values
\* below, with every maxGas up to MaxBudget and every maxTxs up to MaxCount.
\* Three transactions of two senders give price ties between senders, nonce
\* gaps, duplicate nonces and oversized heads.
MaxBudget == 3       \* maxGas up to MaxBudget
MaxCount == 2        \* maxTxs up to MaxCount
MaxHeight == 3       \* heights carried by tip and status events, up to MaxHeight
MaxClock == 3        \* Date.now() runs from 1 up to MaxClock
MaxPending == 2      \* loader promises in flight at one time, up to MaxPending
MaxCap == 2          \* capBlocks up to MaxCap

Senders == {"A", "B"}   \* sender keys
Lens == 0..3            \* lengths of the txs array
Nonces == 0..2          \* tx.nonce
Gases == 0..2           \* tx.gas, when valid
Prices == 0..2          \* tx.price
BaseFees == {1}         \* baseFee: price 0 is below it, 1 and 2 are not
RawLens == 0..2         \* lengths of the txs array of the unvalidated inputs
RawGases == (0 - 1)..2  \* tx.gas of the unvalidated inputs
NoLimit == 0 - 1        \* a negative maxGas or maxTxs
DeepLens == {4}         \* lengths of the txs array of the two-pass inputs
DeepNonces == 0..1      \* tx.nonce of the two-pass inputs
DeepGases == 1..2       \* tx.gas of the two-pass inputs
DeepPrices == 1..2      \* tx.price of the two-pass inputs
WideGases == 1..3       \* tx.gas of the inputs with a transaction above maxGas

VARIABLES
    txs,        \* params.txs: the caller's array of Tx records
    baseFee,    \* params.baseFee
    maxGas,     \* params.maxGas
    maxTxs,     \* params.maxTxs
    pc,         \* position in selectTxs: "start" | "for" | "done"
    eligible,   \* const eligible
    nextNonce,  \* const nextNonce: Map<string, number>
    heads,      \* const heads: {s, idx, list}[]
    picked,     \* const picked: Tx[]
    gasLeft,    \* let gasLeft
    i,          \* the for-loop index (0-based, as in the code)
    progressed, \* let progressed
    result,     \* the returned object
    run,        \* which call of selectTxs this is (1 or 2)
    first,      \* what the first call returned, once a second call is made
    trace,      \* history: what the admission loop of this call did, in order
    tip,        \* useStableHeight: tip?.height
    status,     \* useStableHeight: status?.networkHeight
    deps,       \* the effect's dependency array at its last run, <<>> before the first
    last,       \* last.current
    height,     \* the height state, which the hook returns
    cached,     \* useCached: one instance of the hook and its surroundings
    feed        \* useBlocksAndMempool: blocks, lastHeight.current, capBlocks

vars == <<txs, baseFee, maxGas, maxTxs, pc, eligible, nextNonce, heads,
          picked, gasLeft, i, progressed, result, run, first, trace,
          tip, status, deps, last, height, cached, feed>>

\* the state of useStableHeight
node == <<tip, status, deps, last, height>>

\* the state of selectTxs and of its caller
selection == <<txs, baseFee, maxGas, maxTxs, pc, eligible, nextNonce, heads,
               picked, gasLeft, i, progressed, result, run, first, trace>>

caller == <<run, first>>

params == <<txs, baseFee, maxGas, maxTxs>>

\* ---- pure helpers ----

\* Array.prototype.sort, which is stable: before[j][k] says that the comparator
\* puts s[j] before s[k]; elements the comparator ties keep their order.
StableSort(s, before) ==
    LET Rank(k) == Cardinality({j \in DOMAIN s :
                        \/ before[j][k]
                        \/ (~before[k][j] /\ j < k)}) + 1
    IN  [r \in DOMAIN s |-> s[CHOOSE k \in DOMAIN s : Rank(k) = r]]

\* mutant: the comparator without its nonce tie-break
byPriceOnly(a, b) == a.price > b.price

\* byPriceDesc(a, b) < 0 : a sorts before b
byPriceDesc(a, b) ==
    \/ a.price > b.price
    \/ (a.price = b.price /\ a.nonce < b.nonce)

\* (a, b) => a.nonce - b.nonce
byNonceAsc(a, b) == a.nonce < b.nonce

\* mutant: the heads comparator written the other way round
byHeadPriceAsc(A, B) == A.list[1].price < B.list[1].price

\* (A, B) => B.list[0].price - A.list[0].price
byHeadPriceDesc(A, B) == A.list[1].price > B.list[1].price

\* mutant: the filter written with > instead of >=
IsEligibleStrict(t, fee) == t.price > fee

\* mutant: the fee filter of line 87 left out
IsEligibleAny(t, fee) == TRUE

\* txs.filter(t => t.price >= baseFee)
IsEligible(t, fee) == t.price >= fee

Eligible(ts, fee) ==
    LET Keep(t) == IsEligible(t, fee)
        kept == SelectSeq(ts, Keep)
    IN  StableSort(kept, [j \in DOMAIN kept |-> [k \in DOMAIN kept |->
                             byPriceDesc(kept[j], kept[k])]])

\* keys of groupBy(xs, t => t.sender), in insertion order
RECURSIVE GroupKeys(_)
GroupKeys(xs) ==
    IF xs = <<>> THEN <<>>
    ELSE LET front == GroupKeys(SubSeq(xs, 1, Len(xs) - 1))
             s == xs[Len(xs)].sender
         IN  IF \E k \in DOMAIN front : front[k] = s THEN front
             ELSE Append(front, s)

\* mutant: the per-sender sort of line 90 left out
SenderListUnsorted(xs, s) ==
    LET Mine(t) == t.sender = s
    IN  SelectSeq(xs, Mine)

\* bySender[s] after the per-sender sort by nonce
SenderList(xs, s) ==
    LET Mine(t) == t.sender = s
        list == SelectSeq(xs, Mine)
    IN  StableSort(list, [j \in DOMAIN list |-> [k \in DOMAIN list |->
                             byNonceAsc(list[j], list[k])]])

\* heads after heads.sort(...)
InitialHeads(xs) ==
    LET keys == GroupKeys(xs)
        raw == [k \in DOMAIN keys |->
                  [s |-> keys[k], idx |-> 0, list |-> SenderList(xs, keys[k])]]
    IN  StableSort(raw, [j \in DOMAIN raw |-> [k \in DOMAIN raw |->
                            byHeadPriceDesc(raw[j], raw[k])]])

\* nextNonce after line 91
InitialNextNonce(xs) ==
    LET keys == GroupKeys(xs)
    IN  [s \in {keys[k] : k \in DOMAIN keys} |-> SenderList(xs, s)[1].nonce]

RECURSIVE SumGas(_)
SumGas(p) == IF p = <<>> THEN 0 ELSE SumGas(Tail(p)) + Head(p).gas

RECURSIVE SumPrice(_)
SumPrice(p) == IF p = <<>> THEN 0 ELSE SumPrice(Tail(p)) + Head(p).price

\* Math.round(sum / n) for n > 0: the nearest integer, halves rounded up
RoundDiv(sum, n) == (2 * sum + n) \div (2 * n)

\* mutant: the empty-picked guard left out; 0 / 0 is NaN, here the value -1
AvgPriceUnguarded(p) ==
    IF Len(p) > 0 THEN RoundDiv(SumPrice(p), Len(p)) ELSE 0 - 1

AvgPrice(p) == IF Len(p) > 0 THEN RoundDiv(SumPrice(p), Len(p)) ELSE 0

\* mutant: the gas test of the loop conditions written with >= instead of >
LoopCondZeroGas(p, left) == Len(p) < maxTxs /\ left >= 0

\* mutant: the count test written with <= instead of <
LoopCondOffByOne(p, left) == Len(p) <= maxTxs /\ left > 0

\* picked.length < maxTxs && gasLeft > 0
LoopCond(p, left) == Len(p) < maxTxs /\ left > 0

\* mutant: the nonce test of line 106 lets a later nonce through
NonceOkFrom(tx, expected) == tx.nonce >= expected

\* mutant: the nonce test of line 106 left out
NonceOkAlways(tx, expected) == TRUE

\* tx.nonce !== expected is false
NonceOk(tx, expected) == tx.nonce = expected

\* mutant: the gas test made against the whole budget instead of what is left
FitsWholeBudget(tx, left) == tx.gas <= maxGas

\* tx.gas <= gasLeft
Fits(tx, left) == tx.gas <= left

NoResult == [picked |-> <<>>, gasUsed |-> 0, avgPrice |-> 0, eligibleCount |-> 0]

\* ---- the inputs ----
\* Inputs that meet the preconditions: gas, maxGas and maxTxs are not negative.
ValidTx == [sender : Senders, nonce : Nonces, gas : Gases, price : Prices]

\* Any input the untyped caller can pass, negative gas and limits included.
RawTx == [sender : Senders, nonce : Nonces, gas : RawGases, price : Prices]

\* id is the position in the caller's array: every record is a distinct object
MkTxs(f) == [k \in DOMAIN f |->
               [id |-> k, sender |-> f[k].sender, nonce |-> f[k].nonce,
                gas |-> f[k].gas, price |-> f[k].price]]

\* The locals before the first statement has run.
NoLocals ==
    /\ pc = "start"
    /\ eligible = <<>>
    /\ nextNonce = <<>>
    /\ heads = <<>>
    /\ picked = <<>>
    /\ gasLeft = 0
    /\ i = 0
    /\ progressed = FALSE
    /\ result = NoResult
    /\ run = 1
    /\ first = NoResult
    /\ trace = <<>>

\* ---- useStableHeight ----

\* the height state before any sample is accepted (null)
Null == 0 - 1

\* what tip?.height or status?.networkHeight can be: undefined (no event yet,
\* or a payload without the field), NaN, Infinity, or a number
Sample ==
    [tag : {"undefined", "NaN", "Infinity"}, n : {0}]
        \cup [tag : {"number"}, n : (0 - 1)..MaxHeight]

Undefined == [tag |-> "undefined", n |-> 0]

\* Number(v ?? 0)
ToNumber(v) == IF v.tag = "undefined" THEN [tag |-> "number", n |-> 0] ELSE v

\* n => Number.isFinite(n) && n > 0
IsCandidate(v) == v.tag = "number" /\ v.n > 0

\* const candidates, as the set of its members
Candidates ==
    {v.n : v \in {x \in {ToNumber(tip), ToNumber(status)} : IsCandidate(x)}}

\* Math.max(...candidates) of a non-empty candidates
MaxOf(S) == CHOOSE m \in S : \A x \in S : x <= m

\* mutant: the regression test of line 71 left out
HeightOkAlways(next, cur) == TRUE

\* next >= last.current
HeightOk(next, cur) == next >= cur

\* the hook's state at its first render
HeightInit ==
    /\ tip = Undefined
    /\ status = Undefined
    /\ deps = <<>>
    /\ last = 0
    /\ height = Null

\* ---- useBlocksAndMempool ----

\* the hook before its first effect; blocks holds the heights of its items
\* (an item's ts is the time of the update, which nothing reads)
NoFeed(capBlocks) ==
    [blocks |-> <<>>, lastHeight |-> Null, ran |-> FALSE, seen |-> Null,
     capBlocks |-> capBlocks]

FeedIdle == feed = NoFeed(MaxCap)

\* mutant: the cap keeps the oldest items, slice(0, capBlocks)
SliceFirst(xs, n) == SubSeq(xs, 1, n)

\* xs.slice(-n) for n <= xs.length: the last n items, and all of them for n = 0
SliceLast(xs, n) == IF n = 0 THEN xs ELSE SubSeq(xs, Len(xs) - n + 1, Len(xs))

\* next.length > capBlocks ? next.slice(-capBlocks) : next
Capped(xs, n) == IF Len(xs) > n THEN SliceLast(xs, n) ELSE xs

\* the items add of line 100: heights prev + 1 .. h
Added(prev, h) == [k \in 1..(h - prev) |-> [height |-> prev + k]]

\* ---- useCached ----

Values == {"a", "b"}        \* what the loader resolves with
Ttls == 0..1                \* opts.ttlMs
FailText == "Error: e"      \* String(e) of the loader's rejection

\* localStorage.getItem(key): null, a text JSON.parse throws on, or the text
\* that save wrote, {data, ts}
Missing == [kind |-> "missing", data |-> "null", ts |-> Null]
Unparsable == [kind |-> "unparsable", data |-> "null", ts |-> Null]
Saved(d, t) == [kind |-> "saved", data |-> d, ts |-> t]
Items == {Missing, Unparsable} \cup {Saved(d, t) : d \in Values, t \in 1..MaxClock}

\* the return value of hydrate
HydrateOk(item) == item.kind = "saved"

\* mutant: the entry is taken to be expired whatever its age
ExpiredAlways(item, now, ttlMs) == TRUE

\* const expired = !ok || !localTs || (Date.now() - localTs) > ttlMs
Expired(item, now, ttlMs) ==
    \/ ~HydrateOk(item)
    \/ item.ts = 0
    \/ now - item.ts > ttlMs

\* the hook before its first effect, over the localStorage item it will find
Unmounted(item, ttlMs, autoload) ==
    [data |-> "null", busy |-> FALSE, error |-> "null", ts |-> Null,
     item |-> item, now |-> 1, ttlMs |-> ttlMs, autoload |-> autoload,
     pc |-> "unmounted", pending |-> 0, op |-> "none"]

\* no instance of useCached is of interest
CachedIdle == cached = Unmounted(Missing, 1, FALSE)

\* Sender keys are only compared for equality, so the first record's sender is
\* taken to be "A".
Init ==
    /\ \E n \in Lens : \E f \in [1..n -> ValidTx] :
          /\ (n > 0 => f[1].sender = "A")
          /\ txs = MkTxs(f)
    /\ baseFee \in BaseFees
    /\ maxGas \in 0..MaxBudget
    /\ maxTxs \in 0..MaxCount
    /\ NoLocals
    /\ HeightInit
    /\ CachedIdle
    /\ FeedIdle

InitRaw ==
    /\ \E n \in RawLens : \E f \in [1..n -> RawTx] : txs = MkTxs(f)
    /\ baseFee \in BaseFees
    /\ maxGas \in NoLimit..MaxBudget
    /\ maxTxs \in NoLimit..MaxCount
    /\ NoLocals
    /\ HeightInit
    /\ CachedIdle
    /\ FeedIdle

\* Two senders with two transactions each, all eligible, and limits that let
\* a second pass admit from both senders.
DeepTx == [sender : Senders, nonce : DeepNonces, gas : DeepGases, price : DeepPrices]

InitDeep ==
    /\ \E n \in DeepLens : \E f \in [1..n -> DeepTx] :
          /\ f[1].sender = "A"
          /\ txs = MkTxs(f)
    /\ baseFee \in BaseFees
    /\ maxGas \in 0..(MaxBudget + 1)
    /\ maxTxs \in {MaxCount + 2}
    /\ NoLocals
    /\ HeightInit
    /\ CachedIdle
    /\ FeedIdle

\* Up to three transactions with positive gas, some of it above every maxGas
\* that leaves room for two more transactions.
WideTx == [sender : Senders, nonce : DeepNonces, gas : WideGases, price : DeepPrices]

InitWide ==
    /\ \E n \in Lens : \E f \in [1..n -> WideTx] :
          /\ (n > 0 => f[1].sender = "A")
          /\ txs = MkTxs(f)
    /\ baseFee \in BaseFees
    /\ maxGas \in 0..MaxBudget
    /\ maxTxs \in 0..MaxCount
    /\ NoLocals
    /\ HeightInit
    /\ CachedIdle
    /\ FeedIdle

\* Up to three transactions, with prices below the base fee and price ties.
PermTx == [sender : Senders, nonce : DeepNonces, gas : DeepGases, price : Prices]

InitPerm ==
    /\ \E n \in Lens : \E f \in [1..n -> PermTx] :
          /\ (n > 0 => f[1].sender = "A")
          /\ txs = MkTxs(f)
    /\ baseFee \in BaseFees
    /\ maxGas \in 0..MaxBudget
    /\ maxTxs \in 0..MaxCount
    /\ NoLocals
    /\ HeightInit
    /\ CachedIdle
    /\ FeedIdle

\* the page is not previewing a selection
InitHeight ==
    /\ txs = <<>>
    /\ baseFee \in BaseFees
    /\ maxGas = 0
    /\ maxTxs = 0
    /\ NoLocals
    /\ HeightInit
    /\ CachedIdle
    /\ FeedIdle

\* a component using useCached is about to mount
InitCached ==
    /\ txs = <<>>
    /\ baseFee \in BaseFees
    /\ maxGas = 0
    /\ maxTxs = 0
    /\ NoLocals
    /\ HeightInit
    /\ \E item \in Items, ttlMs \in Ttls, autoload \in BOOLEAN :
          cached = Unmounted(item, ttlMs, autoload)
    /\ FeedIdle

\* a component using useBlocksAndMempool is about to mount
InitBlocks ==
    /\ txs = <<>>
    /\ baseFee \in BaseFees
    /\ maxGas = 0
    /\ maxTxs = 0
    /\ NoLocals
    /\ HeightInit
    /\ CachedIdle
    /\ \E capBlocks \in 0..MaxCap : feed = NoFeed(capBlocks)

\* ---- the steps of selectTxs ----

\* mutant: picked kept outside the function and not emptied by a call
StartStalePicked ==
    /\ pc = "start"
    /\ eligible' = Eligible(txs, baseFee)
    /\ nextNonce' = InitialNextNonce(eligible')
    /\ heads' = InitialHeads(eligible')
    /\ picked' = picked
    /\ gasLeft' = maxGas
    /\ i' = 0
    /\ progressed' = FALSE
    /\ pc' = "for"
    /\ trace' = <<>>
    /\ UNCHANGED <<params, result, caller, node, cached, feed>>

\* mutant: line 87 sorts the caller's array in place before filtering it
StartSortsInput ==
    /\ pc = "start"
    /\ txs' = StableSort(txs, [j \in DOMAIN txs |-> [k \in DOMAIN txs |->
                                  byPriceDesc(txs[j], txs[k])]])
    /\ eligible' = Eligible(txs', baseFee)
    /\ nextNonce' = InitialNextNonce(eligible')
    /\ heads' = InitialHeads(eligible')
    /\ picked' = <<>>
    /\ gasLeft' = maxGas
    /\ i' = 0
    /\ progressed' = FALSE
    /\ pc' = "for"
    /\ trace' = <<>>
    /\ UNCHANGED <<baseFee, maxGas, maxTxs, result, caller, node, cached, feed>>

\* lines 86-97, and entry into the first pass (lines 99-101)
Start ==
    /\ pc = "start"
    /\ eligible' = Eligible(txs, baseFee)
    /\ nextNonce' = InitialNextNonce(eligible')
    /\ heads' = InitialHeads(eligible')
    /\ picked' = <<>>
    /\ gasLeft' = maxGas
    /\ i' = 0
    /\ progressed' = FALSE
    /\ pc' = "for"
    /\ trace' = <<>>
    /\ UNCHANGED <<params, result, caller, node, cached, feed>>

\* the for-loop condition of line 101
ForCond == i < Len(heads) /\ LoopCond(picked, gasLeft)

\* heads[i], its current transaction and the expected nonce (lines 102-105)
CurHead == heads[i + 1]
HasTx == CurHead.idx < Len(CurHead.list)
CurTx == CurHead.list[CurHead.idx + 1]
Expected == nextNonce[CurHead.s]

AdvanceHead == [heads EXCEPT ![i + 1].idx = @ + 1]

\* history only: heads[i] was considered, with this outcome for transaction id
\* (0 when the head's list was exhausted); a "pass" entry ends a pass
Event(kind, id) == [kind |-> kind, head |-> i, tx |-> id]

\* mutant: the admission forgets line 110, nextNonce.set(h.s, expected + 1)
AdmitKeepsNonce ==
    /\ pc = "for" /\ ForCond
    /\ HasTx /\ NonceOk(CurTx, Expected)
    /\ Fits(CurTx, gasLeft)
    /\ picked' = Append(picked, CurTx)
    /\ gasLeft' = gasLeft - CurTx.gas
    /\ nextNonce' = nextNonce
    /\ heads' = AdvanceHead
    /\ progressed' = TRUE
    /\ i' = i + 1
    /\ trace' = Append(trace, Event("admit", CurTx.id))
    /\ UNCHANGED <<params, pc, eligible, result, caller, node, cached, feed>>

\* mutant: after an admission the for loop stays on the same head
AdmitStaysOnHead ==
    /\ pc = "for" /\ ForCond
    /\ HasTx /\ NonceOk(CurTx, Expected)
    /\ Fits(CurTx, gasLeft)
    /\ picked' = Append(picked, CurTx)
    /\ gasLeft' = gasLeft - CurTx.gas
    /\ nextNonce' = [nextNonce EXCEPT ![CurHead.s] = Expected + 1]
    /\ heads' = AdvanceHead
    /\ progressed' = TRUE
    /\ i' = i
    /\ trace' = Append(trace, Event("admit", CurTx.id))
    /\ UNCHANGED <<params, pc, eligible, result, caller, node, cached, feed>>

\* mutant: the admission forgets line 109, gasLeft -= tx.gas
AdmitNoCharge ==
    /\ pc = "for" /\ ForCond
    /\ HasTx /\ NonceOk(CurTx, Expected)
    /\ Fits(CurTx, gasLeft)
    /\ picked' = Append(picked, CurTx)
    /\ gasLeft' = gasLeft
    /\ nextNonce' = [nextNonce EXCEPT ![CurHead.s] = Expected + 1]
    /\ heads' = AdvanceHead
    /\ progressed' = TRUE
    /\ i' = i + 1
    /\ trace' = Append(trace, Event("admit", CurTx.id))
    /\ UNCHANGED <<params, pc, eligible, result, caller, node, cached, feed>>

\* lines 107-113: the head fits and is admitted
Admit ==
    /\ pc = "for" /\ ForCond
    /\ HasTx /\ NonceOk(CurTx, Expected)
    /\ Fits(CurTx, gasLeft)
    /\ picked' = Append(picked, CurTx)
    /\ gasLeft' = gasLeft - CurTx.gas
    /\ nextNonce' = [nextNonce EXCEPT ![CurHead.s] = Expected + 1]
    /\ heads' = AdvanceHead
    /\ progressed' = TRUE
    /\ i' = i + 1
    /\ trace' = Append(trace, Event("admit", CurTx.id))
    /\ UNCHANGED <<params, pc, eligible, result, caller, node, cached, feed>>

\* mutant: passing over an oversized head also moves the expected nonce on
SkipUnblocks ==
    /\ pc = "for" /\ ForCond
    /\ HasTx /\ NonceOk(CurTx, Expected)
    /\ ~Fits(CurTx, gasLeft)
    /\ heads' = AdvanceHead
    /\ nextNonce' = [nextNonce EXCEPT ![CurHead.s] = Expected + 1]
    /\ progressed' = TRUE
    /\ i' = i + 1
    /\ trace' = Append(trace, Event("skip", CurTx.id))
    /\ UNCHANGED <<params, pc, eligible, picked, gasLeft, result, caller, node, cached, feed>>

\* lines 114-118: the head does not fit and is passed over
Skip ==
    /\ pc = "for" /\ ForCond
    /\ HasTx /\ NonceOk(CurTx, Expected)
    /\ ~Fits(CurTx, gasLeft)
    /\ heads' = AdvanceHead
    /\ progressed' = TRUE
    /\ i' = i + 1
    /\ trace' = Append(trace, Event("skip", CurTx.id))
    /\ UNCHANGED <<params, pc, eligible, nextNonce, picked, gasLeft, result, caller, node, cached, feed>>

\* lines 103 and 106: the list is exhausted, or the nonce is not the expected one
Blocked ==
    /\ pc = "for" /\ ForCond
    /\ ~(HasTx /\ NonceOk(CurTx, Expected))
    /\ i' = i + 1
    /\ trace' = Append(trace, Event("blocked", IF HasTx THEN CurTx.id ELSE 0))
    /\ UNCHANGED <<params, pc, eligible, nextNonce, heads, picked, gasLeft,
                   progressed, result, caller, node, cached, feed>>

\* mutant: line 121, `if (!progressed) break`, left out
NextPassAlways ==
    /\ pc = "for" /\ ~ForCond
    /\ LoopCond(picked, gasLeft)
    /\ progressed' = FALSE
    /\ i' = 0
    /\ trace' = Append(trace, [kind |-> "pass", head |-> 0, tx |-> 0])
    /\ UNCHANGED <<params, pc, eligible, nextNonce, heads, picked, gasLeft, result, caller, node, cached, feed>>

\* the for loop ran over all heads, progress was made, the while condition holds
NextPass ==
    /\ pc = "for" /\ ~ForCond
    /\ progressed /\ LoopCond(picked, gasLeft)
    /\ progressed' = FALSE
    /\ i' = 0
    /\ trace' = Append(trace, [kind |-> "pass", head |-> 0, tx |-> 0])
    /\ UNCHANGED <<params, pc, eligible, nextNonce, heads, picked, gasLeft, result, caller, node, cached, feed>>

\* the loop is left (line 99 or line 121) and the result is built (lines 124-126)
Finish ==
    /\ pc = "for" /\ ~ForCond
    /\ (~progressed \/ ~LoopCond(picked, gasLeft))
    /\ result' = [picked |-> picked, gasUsed |-> SumGas(picked),
                  avgPrice |-> AvgPrice(picked), eligibleCount |-> Len(eligible)]
    /\ pc' = "done"
    /\ UNCHANGED <<params, eligible, nextNonce, heads, picked, gasLeft, i, progressed,
                   caller, trace, node, cached, feed>>

Next == Start \/ Admit \/ Skip \/ Blocked \/ NextPass \/ Finish

Spec == Init /\ [][Next]_vars

\* selectTxs on inputs that break the preconditions
SpecRaw == InitRaw /\ [][Next]_vars

\* selectTxs on inputs that take two full passes
SpecDeep == InitDeep /\ [][Next]_vars

\* selectTxs on inputs with oversized transactions of positive gas
SpecWide == InitWide /\ [][Next]_vars

\* The caller invokes selectTxs once more with the same params (the page
\* recomputes its preview); every local of the new call is built by Start.
Again ==
    /\ pc = "done" /\ run = 1
    /\ run' = 2
    /\ first' = result
    /\ pc' = "start"
    /\ UNCHANGED <<params, eligible, nextNonce, heads, picked, gasLeft, i,
                   progressed, result, trace, node, cached, feed>>

\* two calls on identical inputs
SpecTwice == InitPerm /\ [][Next \/ Again]_vars

\* a transaction without the position the model gives it
Bare(t) == [sender |-> t.sender, nonce |-> t.nonce, gas |-> t.gas, price |-> t.price]

\* the array xs with its elements in the order f
Reordered(xs, f) == [k \in DOMAIN xs |-> Bare(xs[f[k]])]

Orders(n) == {f \in [1..n -> 1..n] : \A j, k \in 1..n : j # k => f[j] # f[k]}

\* The caller invokes selectTxs once more, with the same transactions in
\* another order and the same limits.
AgainReordered ==
    /\ pc = "done" /\ run = 1
    /\ \E f \in Orders(Len(txs)) :
          /\ Reordered(txs, f) # Reordered(txs, [k \in DOMAIN txs |-> k])
          /\ txs' = MkTxs(Reordered(txs, f))
    /\ run' = 2
    /\ first' = result
    /\ pc' = "start"
    /\ UNCHANGED <<baseFee, maxGas, maxTxs, eligible, nextNonce, heads, picked,
                   gasLeft, i, progressed, result, trace, node, cached, feed>>

\* two calls on the same transactions in two orders
SpecReordered == InitPerm /\ [][Next \/ AgainReordered]_vars

\* ---- the steps of useStableHeight ----

\* a tip event: useTip's listener stores the payload
TipEvent ==
    /\ \E v \in Sample : tip' = v
    /\ UNCHANGED <<status, deps, last, height, selection, cached, feed>>

\* a status event: useStatus's listener stores the payload
StatusEvent ==
    /\ \E v \in Sample : status' = v
    /\ UNCHANGED <<tip, deps, last, height, selection, cached, feed>>

\* one run of the effect: after the first render, and after a render in which
\* tip?.height or status?.networkHeight differs from the last run's
HeightEffect ==
    /\ deps # <<tip, status>>
    /\ deps' = <<tip, status>>
    /\ IF Candidates # {} /\ HeightOk(MaxOf(Candidates), last)
       THEN /\ last' = MaxOf(Candidates)
            /\ height' = MaxOf(Candidates)
       ELSE UNCHANGED <<last, height>>
    /\ UNCHANGED <<tip, status, selection, cached, feed>>

NextHeight == TipEvent \/ StatusEvent \/ HeightEffect

SpecHeight == InitHeight /\ [][NextHeight]_vars

\* ---- the steps of useBlocksAndMempool ----

\* Number(stableHeight ?? 0)
StableH == IF height = Null THEN 0 ELSE height

\* one run of the effect of lines 90-107: after the first render, and after a
\* render in which stableHeight differs from the last run's
BlocksEffect ==
    /\ ~feed.ran \/ feed.seen # height
    /\ feed' =
          [(IF StableH <= 0 THEN feed
            ELSE IF feed.lastHeight = Null
                 THEN [feed EXCEPT !.lastHeight = StableH]
            ELSE IF StableH > feed.lastHeight
                 THEN [feed EXCEPT
                          !.blocks = Capped(feed.blocks \o Added(feed.lastHeight, StableH),
                                            feed.capBlocks),
                          !.lastHeight = StableH]
            ELSE feed)
           EXCEPT !.ran = TRUE, !.seen = height]
    /\ UNCHANGED <<selection, node, cached>>

NextBlocks == NextHeight \/ BlocksEffect

SpecBlocks == InitBlocks /\ [][NextBlocks]_vars

\* ---- the steps of useCached ----

\* refresh up to its await: setBusy(true), setError(null), loader() is called
StartRefresh(c) ==
    [c EXCEPT !.busy = TRUE, !.error = "null", !.pending = @ + 1]

\* hydrate: data and ts are set from a stored entry that parses
Hydrated(c) ==
    IF HydrateOk(c.item) THEN [c EXCEPT !.data = c.item.data, !.ts = c.item.ts]
    ELSE c

\* the effect of lines 54-60, at mount
Mount ==
    /\ cached.pc = "unmounted"
    /\ cached' =
          [(IF ~cached.autoload THEN cached
            ELSE IF Expired(cached.item, cached.now, cached.ttlMs)
                 THEN StartRefresh(Hydrated(cached))
                 ELSE Hydrated(cached))
           EXCEPT !.pc = "mounted", !.op = "mount"]
    /\ UNCHANGED <<selection, node, feed>>

\* the component calls refresh()
Refresh ==
    /\ cached.pc = "mounted"
    /\ cached.pending < MaxPending
    /\ cached' = [StartRefresh(cached) EXCEPT !.op = "refresh"]
    /\ UNCHANGED <<selection, node, feed>>

\* save(d)
SaveData(c, d) ==
    [c EXCEPT !.data = d, !.ts = c.now, !.item = Saved(d, c.now)]

\* a loader promise resolves: save(d), then the finally block
Resolve ==
    /\ cached.pending > 0
    /\ \E d \in Values :
          cached' = [SaveData(cached, d) EXCEPT !.busy = FALSE,
                        !.pending = @ - 1, !.op = "resolve"]
    /\ UNCHANGED <<selection, node, feed>>

\* a loader promise rejects: the catch block, then the finally block
Reject ==
    /\ cached.pending > 0
    /\ cached' = [cached EXCEPT !.error = FailText, !.busy = FALSE,
                      !.pending = @ - 1, !.op = "reject"]
    /\ UNCHANGED <<selection, node, feed>>

\* the component calls invalidate()
Invalidate ==
    /\ cached.pc = "mounted"
    /\ cached' = [cached EXCEPT !.item = Missing, !.ts = Null, !.data = "null",
                      !.op = "invalidate"]
    /\ UNCHANGED <<selection, node, feed>>

\* time passes
Tick ==
    /\ cached.now < MaxClock
    /\ cached' = [cached EXCEPT !.now = @ + 1, !.op = "tick"]
    /\ UNCHANGED <<selection, node, feed>>

NextCached == Mount \/ Refresh \/ Resolve \/ Reject \/ Invalidate \/ Tick

SpecCached == InitCached /\ [][NextCached]_vars

\* ---- what is checked ----

Returned == pc = "done"

NoncesUnique ==
    \A j, k \in DOMAIN txs :
        (j # k /\ txs[j].sender = txs[k].sender) => txs[j].nonce # txs[k].nonce

EligibleIdx == {k \in DOMAIN txs : txs[k].price >= baseFee}

\* C1: with maxGas >= 0 and every gas >= 0 (the inputs of Spec), the gas of
\* the transactions admitted so far is at most maxGas at every point of the
\* admission loop, and the returned gasUsed is at most maxGas.
C1_GasBudget ==
    /\ SumGas(picked) <= maxGas
    /\ Returned => result.gasUsed <= maxGas

\* Scenario A: the second transaction does not fit in what the first left.
C1_Witness ==
    /\ Returned /\ maxGas = 3
    /\ Len(result.picked) = 1 /\ result.gasUsed = 2
    /\ result.eligibleCount = 2
    /\ \E h \in DOMAIN heads : heads[h].idx = 2

\* C2: with maxTxs >= 0, the number of admitted transactions is at most
\* maxTxs at every point of the admission loop and in the returned picked.
C2_CountCap ==
    /\ Len(picked) <= maxTxs
    /\ Returned => Len(result.picked) <= maxTxs

\* The cap, not the budget, ends the loop: a further head would have fitted.
C2_Witness ==
    /\ Returned /\ maxTxs >= 1
    /\ Len(result.picked) = maxTxs
    /\ \E h \in DOMAIN heads :
          /\ heads[h].idx < Len(heads[h].list)
          /\ heads[h].list[heads[h].idx + 1].nonce = nextNonce[heads[h].s]
          /\ heads[h].list[heads[h].idx + 1].gas <= gasLeft
    /\ gasLeft > 0

\* C3: the admitted transactions of one sender appear in picked in strictly
\* increasing nonce order, for any input (duplicate nonces included).
C3_PerSenderIncreasing ==
    \A a, b \in DOMAIN picked :
        (a < b /\ picked[a].sender = picked[b].sender)
            => picked[a].nonce < picked[b].nonce

\* Two of one sender admitted, from an input with a duplicate nonce.
C3_Witness ==
    /\ Returned
    /\ \E a, b \in DOMAIN result.picked :
          /\ a < b /\ result.picked[a].sender = result.picked[b].sender
          /\ \E j, k \in EligibleIdx :
                /\ j # k /\ txs[j].nonce = txs[k].nonce
                /\ txs[j].sender = txs[k].sender
                /\ txs[j].sender = result.picked[a].sender

\* C4: with nonces unique per sender, whenever t of sender s is in picked,
\* every eligible transaction of s with a lower nonce is in picked before t.
C4_NoEligibleNonceSkipped ==
    NoncesUnique =>
        \A b \in DOMAIN picked : \A k \in EligibleIdx :
            (txs[k].sender = picked[b].sender /\ txs[k].nonce < picked[b].nonce)
                => \E a \in 1..(b - 1) : picked[a] = txs[k]

\* A sender's second transaction is admitted after its first, given out of order.
C4_Witness ==
    /\ Returned /\ NoncesUnique
    /\ \E a, b \in DOMAIN picked :
          /\ a < b /\ picked[a].sender = picked[b].sender
          /\ picked[a].id > picked[b].id

\* C5: the returned eligibleCount is the number of input transactions with
\* price >= baseFee, whatever maxGas and maxTxs are.
C5_EligibleCount ==
    Returned => result.eligibleCount = Cardinality(EligibleIdx)

\* Some transactions are eligible, some are not, and none is admitted.
C5_Witness ==
    /\ Returned /\ result.eligibleCount = 2 /\ Len(txs) = 3
    /\ result.picked = <<>>
    /\ \E k \in DOMAIN txs : txs[k].price = baseFee

C7_RejectsNegativeLimits ==
    (maxGas < 0 \/ maxTxs < 0) => ~Returned

\* C8: if a transaction has gas < 0, selectTxs fails with InvalidTransaction
\* naming it, and neither admits it nor returns a selection result (stated
\* for valid limits, where no other error is due).
C8_RejectsNegativeGas ==
    (maxGas >= 0 /\ maxTxs >= 0 /\ \E k \in DOMAIN txs : txs[k].gas < 0) =>
        /\ ~Returned
        /\ \A a \in DOMAIN picked : picked[a].gas >= 0

\* C9: no transaction is admitted while a lower-nonce transaction of the same
\* sender is in the input but below baseFee (Scenario C: picked = []).
C9_IneligiblePredecessorBlocks ==
    \A a \in DOMAIN picked : \A k \in DOMAIN txs :
        (txs[k].sender = picked[a].sender /\ txs[k].nonce < picked[a].nonce)
            => txs[k].price >= baseFee

\* C10: the returned avgPrice is the exact mean of price over picked:
\* avgPrice * picked.length is the sum of the admitted prices.
C10_ExactMean ==
    (Returned /\ Len(result.picked) > 0) =>
        result.avgPrice * Len(result.picked) = SumPrice(result.picked)

\* C11: the returned gasUsed is the sum of gas over the returned picked, and
\* is maxGas minus the budget left when the loop was left.
C11_GasUsedIsSum ==
    Returned =>
        /\ result.gasUsed = SumGas(result.picked)
        /\ result.gasUsed = maxGas - gasLeft

\* Two transactions were admitted, one was passed over, budget is left.
C11_Witness ==
    /\ Returned /\ Len(result.picked) = 2 /\ result.gasUsed = 2
    /\ gasLeft = 1
    /\ \E k \in DOMAIN trace : trace[k].kind = "skip"

\* C12: on an empty list the result is picked = [], gasUsed = 0, avgPrice = 0,
\* eligibleCount = 0; whenever picked is empty, gasUsed = 0 and avgPrice = 0.
C12_EmptyResult ==
    Returned =>
        /\ txs = <<>> => result = NoResult
        /\ result.picked = <<>> => (result.gasUsed = 0 /\ result.avgPrice = 0)

\* The empty-input case of the spec: no transactions, budget and cap positive.
C12_Witness ==
    /\ Returned /\ txs = <<>>
    /\ maxGas > 0 /\ maxTxs > 0

\* C13: selectTxs leaves the caller's txs array as it was (same records, same
\* order, same field values), through a first and a second call, and a call
\* starts from empty locals whatever the call before it left behind.
C13_InputsUnchanged ==
    [][/\ txs' = txs
       /\ (pc = "start" /\ pc' = "for") =>
             (picked' = <<>> /\ gasLeft' = maxGas /\ i' = 0 /\ ~progressed')]_vars

\* The second call has returned on an input that the sorts had to reorder.
C13_Witness ==
    /\ Returned /\ run = 2 /\ Len(result.picked) = 2
    /\ \E j, k \in DOMAIN eligible : j < k /\ eligible[j].id > eligible[k].id

\* the lowest-nonce eligible transaction(s) of each sender, by input position
MinNonceIdx ==
    {k \in EligibleIdx : \A j \in EligibleIdx :
        txs[j].sender = txs[k].sender => txs[j].nonce >= txs[k].nonce}

\* no sender has two eligible transactions with its lowest eligible nonce
HeadsUnique ==
    \A j, k \in MinNonceIdx : j # k => txs[j].sender # txs[k].sender

\* the initial heads whose gas fits in maxGas
FitIdx == {k \in MinNonceIdx : txs[k].gas <= maxGas}

FirstIsBestHead ==
    (maxTxs >= 1 /\ maxGas > 0 /\ pc # "start") =>
        /\ Len(picked) >= 1 =>
              /\ picked[1].id \in FitIdx
              /\ \A k \in FitIdx : txs[k].price <= picked[1].price
        /\ (Returned /\ FitIdx # {}) => Len(picked) >= 1

\* C14 as claimed: with maxTxs >= 1 and maxGas > 0 the first admitted
\* transaction is a highest-priced one among the senders' initial heads that
\* fit in maxGas, and one is admitted when some initial head fits.
C14_FirstIsBestHead_AnyInput == FirstIsBestHead

\* C14 as amended: the same, when no sender has two eligible transactions
\* with its lowest eligible nonce.
C14_FirstIsBestHead == HeadsUnique => FirstIsBestHead

\* Scenarios B and E: two one-transaction senders, the cheaper one given
\* first, both affordable, and only the dearer one is picked.
C14_Witness ==
    /\ Returned /\ Len(txs) = 2 /\ EligibleIdx = {1, 2}
    /\ txs[1].sender # txs[2].sender
    /\ txs[1].price < txs[2].price
    /\ txs[1].gas <= maxGas /\ txs[2].gas <= maxGas
    /\ result.picked = <<txs[2]>>

\* the pass of the outer `while` in which trace[k] happened
PassOf(k) == 1 + Cardinality({j \in 1..(k - 1) : trace[j].kind = "pass"})

AllGasPositive == \A k \in DOMAIN txs : txs[k].gas > 0

\* C15: two transactions admitted in the same pass are admitted in descending
\* order of price, each being its sender's current head when admitted (stated
\* for inputs with unique nonces per sender and positive gas).
C15_PassByCurrentHeadPrice ==
    (NoncesUnique /\ AllGasPositive) =>
        \A a, b \in DOMAIN trace :
            (/\ a < b
             /\ trace[a].kind = "admit" /\ trace[b].kind = "admit"
             /\ PassOf(a) = PassOf(b))
            => txs[trace[a].tx].price >= txs[trace[b].tx].price

\* C16: in the first pass, where every sender's head is its lowest-nonce
\* eligible transaction, of two heads of equal price the one considered first
\* (admitted or skipped) has the lower nonce (stated for inputs with unique
\* nonces per sender and positive gas).
C16_TieLowerNonceFirst ==
    (NoncesUnique /\ AllGasPositive) =>
        \A a, b \in DOMAIN trace :
            (/\ a < b /\ PassOf(b) = 1
             /\ trace[a].kind \in {"admit", "skip"}
             /\ trace[b].kind \in {"admit", "skip"}
             /\ txs[trace[a].tx].price = txs[trace[b].tx].price)
            => txs[trace[a].tx].nonce <= txs[trace[b].tx].nonce

\* the transactions the loop passed over as oversized, by id
SkippedIds == {trace[k].tx : k \in {j \in DOMAIN trace : trace[j].kind = "skip"}}

PickedIds == {picked[k].id : k \in DOMAIN picked}

\* list[k] is the sender's next transaction: every earlier position of the
\* nonce-sorted list was admitted, and list[k] was neither admitted nor skipped
IsNextTx(list, k) ==
    /\ \A j \in 1..(k - 1) : list[j].id \in PickedIds
    /\ list[k].id \notin PickedIds \cup SkippedIds

\* C17: when selectTxs returns with picked.length < maxTxs, no sender's next
\* transaction has gas <= maxGas - gasUsed (stated for inputs with unique
\* nonces per sender and positive gas).
C17_EveryFittingHeadAdmitted ==
    (Returned /\ Len(result.picked) < maxTxs /\ NoncesUnique /\ AllGasPositive) =>
        \A h \in DOMAIN heads : \A k \in DOMAIN heads[h].list :
            ~(/\ IsNextTx(heads[h].list, k)
              /\ heads[h].list[k].gas <= maxGas - result.gasUsed)

\* C18: with unique nonces per sender, once a head was passed over as
\* oversized, neither it nor any other transaction of its sender is admitted
\* later in the call.
C18_SkipBlocksSender ==
    NoncesUnique =>
        \A a, b \in DOMAIN trace :
            (a < b /\ trace[a].kind = "skip" /\ trace[b].kind = "admit")
            => txs[trace[b].tx].sender # txs[trace[a].tx].sender

\* a sender's head was passed over, and its next transaction would have fit
\* the gas and the count that were left at the end
C18_Witness ==
    /\ Returned /\ NoncesUnique /\ Len(picked) < maxTxs /\ gasLeft > 0
    /\ \E h \in DOMAIN heads : \E k \in DOMAIN heads[h].list :
          /\ k > 1
          /\ heads[h].list[k - 1].id \in SkippedIds
          /\ heads[h].list[k].gas <= gasLeft
          /\ heads[h].list[k].id \notin PickedIds

\* the transactions the heads have not moved past
RECURSIVE Remaining(_)
Remaining(hs) ==
    IF hs = <<>> THEN 0
    ELSE (Len(Head(hs).list) - Head(hs).idx) + Remaining(Tail(hs))

\* a measure of the steps the call can still take
Rank ==
    CASE pc = "start" -> (2 * Len(txs) + 1) * (Len(txs) + 1) + Len(txs) + 2
      [] pc = "for" -> 1 + (2 * Remaining(heads) + (IF progressed THEN 1 ELSE 0))
                               * (Len(heads) + 1)
                         + (Len(heads) - i)
      [] OTHER -> 0

\* the current pass admitted or skipped a transaction
PassAdvanced ==
    \E k \in DOMAIN trace :
        /\ PassOf(k) = PassOf(Len(trace) + 1)
        /\ trace[k].kind \in {"admit", "skip"}

\* C19: the call terminates: every step lowers a natural-number measure; a
\* pass that is followed by another pass advanced some head; and after a pass
\* with no admission and no skip the loop is left.
C19_LoopTerminates ==
    /\ [](Rank >= 0)
    /\ [][/\ Rank' < Rank
          /\ (pc = "for" /\ Len(trace') > Len(trace) /\ trace'[Len(trace')].kind = "pass")
                => PassAdvanced
          /\ (pc = "for" /\ ~ForCond /\ ~PassAdvanced) => pc' = "done"]_vars

\* the call returned after more than one pass, with count and gas left and a
\* head that is not exhausted: the last pass made no progress
C19_Witness ==
    /\ Returned /\ Len(picked) < maxTxs /\ gasLeft > 0
    /\ ~PassAdvanced
    /\ \E k \in DOMAIN trace : trace[k].kind = "pass"
    /\ \E h \in DOMAIN heads : heads[h].idx < Len(heads[h].list)

\* C20: the height useStableHeight returns never decreases and, once set, is
\* never unset; and while the samples at hand give a maximum below the
\* published height, no step changes the published height.
C20_HeightMonotonic ==
    [][/\ height # Null => height' >= height
       /\ (height # Null /\ Candidates # {} /\ MaxOf(Candidates) < height)
             => height' = height]_vars

\* the effect has run on samples whose maximum is below the published height
C20_Witness ==
    /\ height # Null
    /\ deps = <<tip, status>>
    /\ IsCandidate(tip) /\ IsCandidate(status)
    /\ tip.n # status.n
    /\ MaxOf(Candidates) < height

\* the stored entry parses and is no older than ttlMs
FreshItem(c) == c.item.kind = "saved" /\ c.now - c.item.ts <= c.ttlMs

\* C21: at mount with autoload on, the loader is called only when the stored
\* entry is missing, unparsable or older than ttlMs; when a stored entry no
\* older than ttlMs exists, data and ts are set from it and the loader is not
\* called.
C21_AutoloadOnlyWhenStale ==
    [][(cached.pc = "unmounted" /\ cached'.pc = "mounted" /\ cached.autoload) =>
          /\ cached'.pending > cached.pending =>
                \/ cached.item.kind \in {"missing", "unparsable"}
                \/ cached.now - cached.item.ts > cached.ttlMs
          /\ FreshItem(cached) =>
                /\ cached'.data = cached.item.data
                /\ cached'.ts = cached.item.ts
                /\ cached'.pending = cached.pending
                /\ ~cached'.busy]_vars

\* mounted over an entry whose age is exactly ttlMs: hydrated, no loader call
C21_Witness ==
    /\ cached.op = "mount" /\ cached.autoload
    /\ cached.item.kind = "saved"
    /\ cached.ttlMs = 1 /\ cached.now - cached.item.ts = 1
    /\ cached.data = cached.item.data /\ cached.ts = cached.item.ts
    /\ cached.pending = 0

\* the lowest nonce among the eligible transactions of sender s
LowestEligibleNonce(s) ==
    CHOOSE n \in {txs[k].nonce : k \in {j \in EligibleIdx : txs[j].sender = s}} :
        \A k \in EligibleIdx : txs[k].sender = s => n <= txs[k].nonce

\* how many transactions of picked[b]'s sender were admitted before picked[b]
AdmittedBefore(b) ==
    Cardinality({a \in 1..(b - 1) : picked[a].sender = picked[b].sender})

\* C22: the nonces admitted for one sender are consecutive integers starting
\* at the sender's lowest eligible nonce, in the order of admission; so a
\* fee-ineligible lower nonce does not block the sender, and no transaction
\* after an integer gap in the sender's eligible nonces is admitted.
C22_ConsecutiveNonces ==
    \A b \in DOMAIN picked :
        picked[b].nonce = LowestEligibleNonce(picked[b].sender) + AdmittedBefore(b)

\* a sender with eligible nonces 0 and 2: nonce 0 was admitted, and nonce 2
\* stays out although it fits the gas and the count that are left
C22_Witness ==
    /\ Returned /\ NoncesUnique /\ AllGasPositive
    /\ Len(picked) < maxTxs /\ gasLeft > 0
    /\ \E j, k \in EligibleIdx :
          /\ txs[j].sender = txs[k].sender
          /\ txs[j].nonce = 0 /\ txs[k].nonce = 2
          /\ j \in PickedIds /\ k \notin PickedIds
          /\ txs[k].gas <= gasLeft

\* C23: every transaction in picked is an input transaction with
\* price >= baseFee, and no input transaction is in picked twice.
C23_PickedFromEligible ==
    /\ \A b \in DOMAIN picked :
          /\ picked[b].id \in DOMAIN txs
          /\ txs[picked[b].id] = picked[b]
          /\ picked[b].price >= baseFee
    /\ \A a, b \in DOMAIN picked : a # b => picked[a].id # picked[b].id

\* two input transactions that differ in position only, one of them picked,
\* next to a transaction below the base fee
C23_Witness ==
    /\ Returned /\ Len(result.picked) >= 1
    /\ \E j, k \in EligibleIdx :
          /\ j # k
          /\ [txs[j] EXCEPT !.id = 0] = [txs[k] EXCEPT !.id = 0]
          /\ j \in PickedIds /\ k \notin PickedIds
    /\ \E k \in DOMAIN txs : txs[k].price < baseFee

\* C27: with maxTxs = 0 or maxGas = 0 nothing is admitted, zero-gas
\* transactions included: the loop body is never entered, picked is empty and
\* gasUsed is 0, while eligibleCount counts the transactions at or above the
\* base fee.
C27_ZeroLimitAdmitsNothing ==
    (Returned /\ (maxTxs = 0 \/ maxGas = 0)) =>
        /\ result.picked = <<>>
        /\ result.gasUsed = 0
        /\ result.eligibleCount = Cardinality(EligibleIdx)
        /\ trace = <<>>

\* maxGas = 0 with room in the count and an eligible zero-gas transaction
C27_Witness ==
    /\ Returned /\ maxGas = 0 /\ maxTxs > 0
    /\ result.eligibleCount >= 1
    /\ \E k \in EligibleIdx : txs[k].gas = 0

\* the looks at a head (admit, skip or blocked) recorded in trace
Looks == {k \in DOMAIN trace : trace[k].kind # "pass"}

\* C25: a pass looks at each head at most once, in the order of heads, which
\* never changes; and a look in a later pass comes after a look at every head
\* in the pass before it.  So a sender's second transaction is reached only
\* after every other sender had its turn, whatever its price.
C25_RoundRobin ==
    /\ [](\A a, b \in Looks :
            (a < b /\ PassOf(a) = PassOf(b)) => trace[a].head < trace[b].head)
    /\ [](\A b \in Looks : PassOf(b) > 1 =>
            \A h \in DOMAIN heads : \E a \in Looks :
                a < b /\ PassOf(a) = PassOf(b) - 1 /\ trace[a].head = h - 1)
    /\ [][pc = "for" =>
            /\ Len(heads') = Len(heads)
            /\ \A h \in DOMAIN heads : heads'[h].s = heads[h].s]_vars

\* two senders, two admissions each, taken in turns although the first
\* sender's second transaction pays more than the other sender's first
C25_Witness ==
    /\ Returned /\ Len(picked) = 4 /\ NoncesUnique
    /\ picked[1].sender = picked[3].sender
    /\ picked[2].sender = picked[4].sender
    /\ picked[1].sender # picked[2].sender
    /\ picked[3].price > picked[2].price

\* j and k are two eligible transactions of one sender with one nonce
Duplicates(j, k) ==
    /\ j \in EligibleIdx /\ k \in EligibleIdx /\ j # k
    /\ txs[j].sender = txs[k].sender
    /\ txs[j].nonce = txs[k].nonce

\* a transaction of txs[j]'s sender with a higher nonce is in picked
HigherNoncePicked(j) ==
    \E b \in DOMAIN picked :
        picked[b].sender = txs[j].sender /\ picked[b].nonce > txs[j].nonce

\* C26 as claimed: of two eligible transactions of one sender with the same
\* nonce at most one is admitted, and once one is admitted no higher-nonce
\* transaction of that sender is admitted.
C26_DuplicateBlocks_AnyOrder ==
    \A j, k \in DOMAIN txs : Duplicates(j, k) =>
        /\ ~(j \in PickedIds /\ k \in PickedIds)
        /\ j \in PickedIds => ~HigherNoncePicked(j)

\* C26 as amended: the same, for an admitted duplicate whose twin was not
\* passed over as oversized before.
C26_DuplicateBlocks ==
    \A j, k \in DOMAIN txs : Duplicates(j, k) =>
        /\ ~(j \in PickedIds /\ k \in PickedIds)
        /\ (j \in PickedIds /\ k \notin SkippedIds) => ~HigherNoncePicked(j)

\* one duplicate was admitted, its twin was not passed over, and a
\* higher-nonce transaction of the sender stays out although it fits the gas
\* and the count that are left
C26_Witness ==
    /\ Returned /\ Len(picked) < maxTxs /\ gasLeft > 0
    /\ \E j, k, m \in EligibleIdx :
          /\ Duplicates(j, k)
          /\ j \in PickedIds /\ k \notin SkippedIds
          /\ txs[m].sender = txs[j].sender /\ txs[m].nonce = txs[j].nonce + 1
          /\ txs[m].gas <= gasLeft
          /\ m \notin PickedIds

\* no two eligible transactions have the same price and the same nonce
DistinctPriceNonce ==
    \A j, k \in EligibleIdx :
        j # k => (txs[j].price # txs[k].price \/ txs[j].nonce # txs[k].nonce)

\* a result without the positions the model gives the transactions
BareResult(r) == [r EXCEPT !.picked = [k \in DOMAIN r.picked |-> Bare(r.picked[k])]]

\* C24: when no two eligible transactions share a (price, nonce) pair, the
\* call on a reordered txs returns the same picked, in the same order, and
\* the same aggregates.
C24_OrderOfInputIrrelevant ==
    (Returned /\ run = 2 /\ DistinctPriceNonce) =>
        BareResult(result) = BareResult(first)

\* both calls picked two transactions of equal price from two senders
C24_Witness ==
    /\ Returned /\ run = 2 /\ DistinctPriceNonce
    /\ Len(result.picked) = 2
    /\ result.picked[1].sender # result.picked[2].sender
    /\ result.picked[1].price = result.picked[2].price
    /\ \E k \in DOMAIN txs : txs[k].price < baseFee

\* C28: with capBlocks >= 1, blocks holds at most capBlocks items, each
\* item's height is the one before it plus 1, the last item's height is
\* lastHeight.current, which is the stable height the effect last ran on, and
\* the run that sets lastHeight.current for the first time adds no block.
C28_BlocksFeed ==
    /\ [](feed.capBlocks >= 1 =>
            /\ Len(feed.blocks) <= feed.capBlocks
            /\ \A k \in 1..(Len(feed.blocks) - 1) :
                  feed.blocks[k + 1].height = feed.blocks[k].height + 1
            /\ feed.blocks # <<>> =>
                  feed.blocks[Len(feed.blocks)].height = feed.lastHeight
            /\ feed.lastHeight # Null => feed.lastHeight = feed.seen)
    /\ [][(feed.capBlocks >= 1 /\ feed.lastHeight = Null) =>
             feed'.blocks = <<>>]_vars

\* the feed is full after the heights 1, 2 and 3
C28_Witness ==
    /\ feed.capBlocks = 2
    /\ feed.blocks = <<[height |-> 2], [height |-> 3]>>
    /\ feed.lastHeight = 3 /\ height = 3

\* the step completes a call of refresh whose loader rejected / resolved
Rejected == cached'.op = "reject" /\ cached'.pending = cached.pending - 1
Resolved == cached'.op = "resolve" /\ cached'.pending = cached.pending - 1

\* C29: a refresh whose loader rejects leaves data, ts and the localStorage
\* entry unchanged and sets error to the failure text; a refresh whose loader
\* resolves stores the value in data and in localStorage with the ts of that
\* moment and leaves error null; busy is false when either has completed.
C29_RefreshOutcome ==
    [][/\ Rejected =>
             /\ cached'.data = cached.data
             /\ cached'.ts = cached.ts
             /\ cached'.item = cached.item
             /\ cached'.error = FailText
             /\ ~cached'.busy
       /\ Resolved =>
             /\ cached'.data \in Values
             /\ cached'.ts = cached.now
             /\ cached'.item = Saved(cached'.data, cached.now)
             /\ cached'.error = "null"
             /\ ~cached'.busy]_vars

====
